---- MODULE Spec2Model ----
(***************************************************************************)
(* Model of the Timescales core: the irregularly-sampled discrete Fourier  *)
(* transform dft() (dft.cpp) and the sampling-cadence statistics deltaT(), *)
(* maxFreq() and pseudoNyquistFreq() (specialfreqs.cpp).                   *)
(*                                                                         *)
(* Numbers.  Timestamps and fluxes are integers.  A double result is an    *)
(* exact rational <<n, d>> in lowest terms with d > 0.  A frequency is     *)
(* given in quarter cycles per time unit (freqs[i] = q means q/4), so that *)
(* exp(-I * 2*pi*f * t) is the exact Gaussian integer (-I)^(q*t); a        *)
(* complex number is a pair <<re, im>>.                                    *)
(***************************************************************************)
EXTENDS Integers, Sequences, FiniteSets, TLC

VARIABLES times, fluxes, freqs, dft, tempDft, i, pc, ret

vars == <<times, fluxes, freqs, dft, tempDft, i, pc, ret>>

-----------------------------------------------------------------------------
(* Bounds of the model *)

MaxLen == 3        \* longest times / fluxes sequence drawn
MaxTime == 2       \* timestamps are drawn from 0..MaxTime
MaxFreqs == 2      \* longest frequency grid drawn
MaxSeries == 4     \* longest time series drawn for the cadence statistics
MaxStamp == 3      \* their timestamps are drawn from 0..MaxStamp
MaxGridLen == 100  \* longest regular grid drawn
MaxStep == 2       \* regular grids have step 1..MaxStep

TimeVals == 0 .. MaxTime
FluxVals == {1, 2}
FreqVals == {-1, 1, 2}

SeqsUpTo(S, n) == UNION {[1 .. k -> S] : k \in 0 .. n}

-----------------------------------------------------------------------------
(* Exact arithmetic standing for double and std::complex<double> *)

Abs(x) == IF x < 0 THEN -x ELSE x

RECURSIVE GCD(_, _)
GCD(a, b) == IF b = 0 THEN a ELSE GCD(b, a % b)

\* the rational n/d (d # 0) in lowest terms, denominator positive
Rat(n, d) ==
    LET g == GCD(Abs(n), Abs(d))
        s == IF d < 0 THEN -1 ELSE 1
    IN  <<(s * n) \div g, (s * d) \div g>>

RatMul(a, b) == Rat(a[1] * b[1], a[2] * b[2])
RatDiv(a, b) == Rat(a[1] * b[2], a[2] * b[1])

CAdd(a, b) == <<a[1] + b[1], a[2] + b[2]>>
CMul(a, b) == <<a[1] * b[1] - a[2] * b[2], a[1] * b[2] + a[2] * b[1]>>
CScale(x, a) == <<x * a[1], x * a[2]>>

\* the result of a call: it returned val, or threw the exception kind
Return(v) == [kind |-> "ok", val |-> v]
Throw(e) == [kind |-> e, val |-> <<0, 1>>]

-----------------------------------------------------------------------------
(* Loops.  A loop over positions lo..hi is unfolded as the loop over the   *)
(* first half followed by the loop over the second half, which runs the    *)
(* same iterations in the same order on the same running values.  The test *)
(* on the first half's result makes TLC compute it before going on.        *)

(* specialfreqs.cpp: deltaT *)

\* one iteration of the min/max scan, at element x
stepMinMax(x, mm) ==
    [tMin |-> IF x < mm.tMin THEN x ELSE mm.tMin,
     tMax |-> IF x > mm.tMax THEN x ELSE mm.tMax]

\* the iterations of the min/max scan at positions lo..hi (1-based)
RECURSIVE scanMinMax(_, _, _, _)
scanMinMax(t, lo, hi, mm) ==
    IF lo > hi THEN mm
    ELSE IF lo = hi THEN stepMinMax(t[lo], mm)
    ELSE LET first == scanMinMax(t, lo, (lo + hi) \div 2, mm)
         IN  IF first.tMin <= first.tMax
             THEN scanMinMax(t, (lo + hi) \div 2 + 1, hi, first)
             ELSE first

\* deltaT taking the ends of the series for its extremes
deltaTFrontBack(t) ==
    IF Len(t) < 2 THEN Throw("invalid_argument")
    ELSE IF t[Len(t)] <= t[1] THEN Throw("BadLightCurve")
    ELSE Return(Rat(t[Len(t)] - t[1], 1))

\* deltaT accepting a span of zero
deltaTZeroSpan(t) ==
    IF Len(t) < 2 THEN Throw("invalid_argument")
    ELSE LET mm == scanMinMax(t, 1, Len(t), [tMin |-> t[1], tMax |-> t[1]])
         IN  IF mm.tMax < mm.tMin THEN Throw("BadLightCurve")
             ELSE Return(Rat(mm.tMax - mm.tMin, 1))

\* deltaT with a scan that stops before the last sample
deltaTShortScan(t) ==
    IF Len(t) < 2 THEN Throw("invalid_argument")
    ELSE LET mm == scanMinMax(t, 1, Len(t) - 1, [tMin |-> t[1], tMax |-> t[1]])
         IN  IF mm.tMax <= mm.tMin THEN Throw("BadLightCurve")
             ELSE Return(Rat(mm.tMax - mm.tMin, 1))

deltaT(t) ==
    IF Len(t) < 2 THEN Throw("invalid_argument")
    ELSE LET mm == scanMinMax(t, 1, Len(t), [tMin |-> t[1], tMax |-> t[1]])
         IN  IF mm.tMax <= mm.tMin THEN Throw("BadLightCurve")
             ELSE Return(Rat(mm.tMax - mm.tMin, 1))

(* specialfreqs.cpp: pseudoNyquistFreq; an exception of deltaT propagates *)

\* pseudoNyquistFreq counting intervals instead of samples
pseudoNyquistFreqIntervals(t) ==
    LET d == deltaT(t)
    IN  IF d.kind # "ok" THEN d
        ELSE Return(RatDiv(RatMul(<<1, 2>>, <<Len(t) - 1, 1>>), d.val))

pseudoNyquistFreq(t) ==
    LET d == deltaT(t)
    IN  IF d.kind # "ok" THEN d
        ELSE Return(RatDiv(RatMul(<<1, 2>>, <<Len(t), 1>>), d.val))

(* kpfutils::isSorted (common/stats.tmp.h): true when no element is smaller *)
(* than its predecessor; the pairs (k, k + 1) for k in lo..hi, in order,    *)
(* stopping at the first inverted pair                                      *)

RECURSIVE isSortedRange(_, _, _)
isSortedRange(t, lo, hi) ==
    IF lo > hi THEN TRUE
    ELSE IF lo = hi THEN ~(t[lo + 1] < t[lo])
    ELSE /\ isSortedRange(t, lo, (lo + hi) \div 2)
         /\ isSortedRange(t, (lo + hi) \div 2 + 1, hi)

isSorted(t) == isSortedRange(t, 1, Len(t) - 1)

(* specialfreqs.cpp: maxFreq *)

\* stepMinDeltaT taking zero intervals too
stepMinDeltaTNoSkip(t, k, minDeltaT) ==
    IF t[k + 1] - t[k] < minDeltaT \/ minDeltaT = 0
    THEN t[k + 1] - t[k]
    ELSE minDeltaT

\* one iteration of the scan for the smallest interval, t1 at position k
stepMinDeltaT(t, k, minDeltaT) ==
    IF t[k + 1] > t[k] /\ (t[k + 1] - t[k] < minDeltaT \/ minDeltaT = 0)
    THEN t[k + 1] - t[k]
    ELSE minDeltaT

\* the iterations with t1 at positions lo..hi
RECURSIVE scanMinDeltaT(_, _, _, _)
scanMinDeltaT(t, lo, hi, minDeltaT) ==
    IF lo > hi THEN minDeltaT
    ELSE IF lo = hi THEN stepMinDeltaT(t, lo, minDeltaT)
    ELSE LET first == scanMinDeltaT(t, lo, (lo + hi) \div 2, minDeltaT)
         IN  IF first >= 0
             THEN scanMinDeltaT(t, (lo + hi) \div 2 + 1, hi, first)
             ELSE first

\* maxFreq without the test for sorted input
maxFreqUnchecked(t) ==
    IF Len(t) < 2 THEN Throw("invalid_argument")
    ELSE LET minDeltaT == scanMinDeltaT(t, 1, Len(t) - 1, 0)
         IN  IF minDeltaT = 0 THEN Throw("BadLightCurve")
             ELSE Return(RatDiv(<<1, 2>>, <<minDeltaT, 1>>))

\* maxFreq looking for a positive interval before testing the order
maxFreqGapFirst(t) ==
    IF Len(t) < 2 THEN Throw("invalid_argument")
    ELSE LET minDeltaT == scanMinDeltaT(t, 1, Len(t) - 1, 0)
         IN  IF minDeltaT = 0 THEN Throw("BadLightCurve")
             ELSE IF ~isSorted(t) THEN Throw("NotSorted")
             ELSE Return(RatDiv(<<1, 2>>, <<minDeltaT, 1>>))

maxFreq(t) ==
    IF Len(t) < 2 THEN Throw("invalid_argument")
    ELSE IF ~isSorted(t) THEN Throw("NotSorted")
    ELSE LET minDeltaT == scanMinDeltaT(t, 1, Len(t) - 1, 0)
         IN  IF minDeltaT = 0 THEN Throw("BadLightCurve")
             ELSE Return(RatDiv(<<1, 2>>, <<minDeltaT, 1>>))

-----------------------------------------------------------------------------
(* dft.cpp: dft *)

nTimes == Len(times)
nFreqs == Len(freqs)

\* scanTimes leaving the loop as soon as either flag has flipped
RECURSIVE scanTimesEarly(_, _, _, _)
scanTimesEarly(t, k, diffValues, sortedTimes) ==
    IF k < Len(t) /\ (~diffValues /\ sortedTimes)
    THEN scanTimesEarly(t, k + 1,
                   IF ~diffValues /\ t[k + 1] # t[1] THEN TRUE ELSE diffValues,
                   IF sortedTimes /\ k > 0 /\ t[k] > t[k + 1] THEN FALSE
                   ELSE sortedTimes)
    ELSE [diffValues |-> diffValues, sortedTimes |-> sortedTimes]

\* scanTimes taking equal neighbours for unsorted
RECURSIVE scanTimesStrict(_, _, _, _)
scanTimesStrict(t, k, diffValues, sortedTimes) ==
    IF k < Len(t) /\ (~diffValues \/ sortedTimes)
    THEN scanTimesStrict(t, k + 1,
                   IF ~diffValues /\ t[k + 1] # t[1] THEN TRUE ELSE diffValues,
                   IF sortedTimes /\ k > 0 /\ t[k] >= t[k + 1] THEN FALSE
                   ELSE sortedTimes)
    ELSE [diffValues |-> diffValues, sortedTimes |-> sortedTimes]

\* the validation scan, with its early exit; k is the 0-based loop index
RECURSIVE scanTimes(_, _, _, _)
scanTimes(t, k, diffValues, sortedTimes) ==
    IF k < Len(t) /\ (~diffValues \/ sortedTimes)
    THEN scanTimes(t, k + 1,
                   IF ~diffValues /\ t[k + 1] # t[1] THEN TRUE ELSE diffValues,
                   IF sortedTimes /\ k > 0 /\ t[k] > t[k + 1] THEN FALSE
                   ELSE sortedTimes)
    ELSE [diffValues |-> diffValues, sortedTimes |-> sortedTimes]

\* verify with the length check made first
verifySizeFirst(t, f) ==
    LET s == scanTimes(t, 0, FALSE, TRUE)
    IN  IF Len(f) # Len(t) THEN "invalid_argument"
        ELSE IF ~s.diffValues THEN "BadLightCurve"
        ELSE IF ~s.sortedTimes THEN "NotSorted"
        ELSE "ok"

\* the precondition checks: the exception thrown, or "ok"
verify(t, f) ==
    LET s == scanTimes(t, 0, FALSE, TRUE)
    IN  IF ~s.diffValues THEN "BadLightCurve"
        ELSE IF ~s.sortedTimes THEN "NotSorted"
        ELSE IF Len(f) # Len(t) THEN "invalid_argument"
        ELSE "ok"

\* (-I)^k by repeated multiplication: exp(-I * omega * t) for omega * t a
\* whole number k of quarter turns
RECURSIVE negIPow(_)
negIPow(k) == IF k = 0 THEN <<1, 0>> ELSE CMul(<<0, -1>>, negIPow(k - 1))

expTerm(q, t) == negIPow((q * t) % 4)

\* sumOver stopping one sample early
RECURSIVE sumOverShort(_, _, _, _, _)
sumOverShort(acc, q, t, f, j) ==
    IF j >= Len(t) THEN acc
    ELSE sumOverShort(CAdd(acc, CScale(f[j], expTerm(q, t[j]))), q, t, f, j + 1)

\* the inner loop of the summation: tempDft[i] += fluxes[j] * exp(...)
RECURSIVE sumOver(_, _, _, _, _)
sumOver(acc, q, t, f, j) ==
    IF j > Len(t) THEN acc
    ELSE sumOver(CAdd(acc, CScale(f[j], expTerm(q, t[j]))), q, t, f, j + 1)

\* dftVerify sizing the output argument itself before the checks
dftVerifyInPlace ==
    /\ pc = "idle"
    /\ dft' = [k \in 1 .. nFreqs |-> <<0, 0>>]
    /\ LET e == verify(times, fluxes)
       IN  IF e # "ok"
           THEN /\ pc' = "threw"
                /\ ret' = [fn |-> "dft"] @@ Throw(e)
                /\ UNCHANGED <<tempDft, i>>
           ELSE /\ pc' = "sum"
                /\ tempDft' = [k \in 1 .. nFreqs |-> <<0, 0>>]
                /\ i' = 1
                /\ UNCHANGED ret
    /\ UNCHANGED <<times, fluxes, freqs>>

\* validation; then either a throw or the zero-filled temporary
dftVerify ==
    /\ pc = "idle"
    /\ LET e == verify(times, fluxes)
       IN  IF e # "ok"
           THEN /\ pc' = "threw"
                /\ ret' = [fn |-> "dft"] @@ Throw(e)
                /\ UNCHANGED <<tempDft, i>>
           ELSE /\ pc' = "sum"
                /\ tempDft' = [k \in 1 .. nFreqs |-> <<0, 0>>]
                /\ i' = 1
                /\ UNCHANGED ret
    /\ UNCHANGED <<times, fluxes, freqs, dft>>

\* one pass of the outer loop: the whole sum for frequency i
dftSum ==
    /\ pc = "sum"
    /\ i <= nFreqs
    /\ tempDft' = [tempDft EXCEPT ![i] = sumOver(@, freqs[i], times, fluxes, 1)]
    /\ i' = i + 1
    /\ UNCHANGED <<times, fluxes, freqs, dft, pc, ret>>

\* swap(dft, tempDft) and return
dftSwap ==
    /\ pc = "sum"
    /\ i > nFreqs
    /\ dft' = tempDft
    /\ tempDft' = dft
    /\ pc' = "returned"
    /\ ret' = [fn |-> "dft"] @@ Return(<<0, 1>>)
    /\ UNCHANGED <<times, fluxes, freqs, i>>

-----------------------------------------------------------------------------
(* Calls of the cadence statistics *)

\* a call returns or throws at once; r is its result
Outcome(fn, r) ==
    /\ ret' = [fn |-> fn] @@ r
    /\ pc' = IF r.kind = "ok" THEN "returned" ELSE "threw"
    /\ UNCHANGED <<times, fluxes, freqs, dft, tempDft, i>>

callDeltaT ==
    /\ pc = "idle"
    /\ Outcome("deltaT", deltaT(times))

callMaxFreq ==
    /\ pc = "idle"
    /\ Outcome("maxFreq", maxFreq(times))

callPseudoNyquistFreq ==
    /\ pc = "idle"
    /\ Outcome("pseudoNyquistFreq", pseudoNyquistFreq(times))

-----------------------------------------------------------------------------
(* Specifications *)

NoCall == [fn |-> "none", kind |-> "none", val |-> <<0, 1>>]

\* the output argument as the caller passes it: empty, or holding old content
PreDft == {<<>>, <<<<7, 7>>, <<7, 7>>, <<7, 7>>>>}

\* times[k] = t0 + (k - 1) * step
RegularGrid(t0, step, n) == [k \in 1 .. n |-> t0 + (k - 1) * step]

RegularGrids ==
    {RegularGrid(t0, step, n) : t0 \in 0 .. 1, step \in 1 .. MaxStep, n \in 1 .. MaxGridLen}

\* one call of dft on drawn arguments
Init ==
    /\ times \in SeqsUpTo(TimeVals, MaxLen)
    /\ fluxes \in SeqsUpTo(FluxVals, MaxLen)
    /\ freqs \in SeqsUpTo(FreqVals, MaxFreqs)
    /\ dft \in PreDft
    /\ tempDft = <<>>
    /\ i = 0
    /\ pc = "idle"
    /\ ret = NoCall

Next == dftVerify \/ dftSum \/ dftSwap

Spec == Init /\ [][Next]_vars

\* one call of a cadence statistic on a drawn time series or a regular grid
InitFreqs ==
    /\ times \in SeqsUpTo(0 .. MaxStamp, MaxSeries) \cup RegularGrids
    /\ fluxes = <<>>
    /\ freqs = <<>>
    /\ dft = <<>>
    /\ tempDft = <<>>
    /\ i = 0
    /\ pc = "idle"
    /\ ret = NoCall

NextFreqs == callDeltaT \/ callMaxFreq \/ callPseudoNyquistFreq

SpecFreqs == InitFreqs /\ [][NextFreqs]_vars

-----------------------------------------------------------------------------
(* Properties of dft, checked under Spec *)

\* some two elements of t differ
TwoDistinct(t) == \E a, b \in DOMAIN t : t[a] # t[b]

\* no element of t is followed, anywhere later, by a smaller one
Ascending(t) == \A a, b \in DOMAIN t : a < b => t[a] <= t[b]

\* the first precondition of dft, in the documented order, that times and
\* fluxes violate
FirstViolated ==
    IF ~TwoDistinct(times) THEN "BadLightCurve"
    ELSE IF ~Ascending(times) THEN "NotSorted"
    ELSE IF Len(fluxes) # Len(times) THEN "invalid_argument"
    ELSE "ok"

Finished == pc \in {"returned", "threw"}

\* C1: dft reports the first violated precondition in the order (1) two
\* distinct values, else BadLightCurve, (2) ascending, else NotSorted,
\* (3) equal lengths, else invalid_argument; it goes on to the summation
\* exactly when none is violated.
C1_CheckOrder ==
    pc # "idle" =>
        IF FirstViolated = "ok"
        THEN pc \in {"sum", "returned"} /\ ret.kind \in {"none", "ok"}
        ELSE pc = "threw" /\ ret.fn = "dft" /\ ret.kind = FirstViolated

\* an unsorted times with fluxes of another length: two checks are violated
C1_Witness ==
    /\ pc = "threw"
    /\ ret.kind = "NotSorted"
    /\ Len(fluxes) # Len(times)
    /\ TwoDistinct(times)

\* C2 (as claimed): a call whose times and fluxes satisfy the other
\* preconditions and whose freqs holds a negative value ends with a
\* NegativeFreq error.
C2_NegativeFreqThrown ==
    (/\ Finished
     /\ FirstViolated = "ok"
     /\ \E k \in DOMAIN freqs : freqs[k] < 0)
    => (pc = "threw" /\ ret.kind = "NegativeFreq")

\* C3: a step that ends dft with an error leaves dft, times, fluxes and freqs
\* as they were; no step changes times, fluxes or freqs; and the only step
\* that changes the output is the final swap, taken after every check has
\* passed and all nFreqs sums are in the temporary.
C3_OutputOnlyBySwap ==
    [][/\ pc' = "threw" =>
            /\ dft' = dft
            /\ ret'.kind \in {"BadLightCurve", "NotSorted", "invalid_argument"}
       /\ times' = times /\ fluxes' = fluxes /\ freqs' = freqs
       /\ dft' # dft =>
            /\ pc = "sum" /\ pc' = "returned"
            /\ FirstViolated = "ok"
            /\ i = nFreqs + 1
            /\ dft' = tempDft]_vars

\* a failed call that was given an output argument with old content
C3_Witness ==
    /\ pc = "threw"
    /\ ret.kind = "invalid_argument"
    /\ Len(dft) = 3
    /\ Len(freqs) = 2

\* cos and sin of k quarter turns
Cos4(k) == CASE k % 4 = 0 -> 1 [] k % 4 = 1 -> 0 [] k % 4 = 2 -> -1 [] k % 4 = 3 -> 0
Sin4(k) == CASE k % 4 = 0 -> 0 [] k % 4 = 1 -> 1 [] k % 4 = 2 -> 0 [] k % 4 = 3 -> -1

\* x[1] + ... + x[n], added to zero from left to right
RECURSIVE SumTo(_, _)
SumTo(x, n) == IF n = 0 THEN 0 ELSE SumTo(x, n - 1) + x[n]

\* the Fourier sum at frequency q: sum_j fluxes[j] * (cos - I * sin)(q * times[j])
Coefficient(q) ==
    <<SumTo([j \in 1 .. nTimes |-> fluxes[j] * Cos4(q * times[j])], nTimes),
      SumTo([j \in 1 .. nTimes |-> -(fluxes[j] * Sin4(q * times[j]))], nTimes)>>

\* C4: after a successful call the output has one entry per frequency,
\* whatever it held before, and entry k is the Fourier sum at freqs[k] over
\* all samples; it is a function of freqs[k], times and fluxes alone.
C4_Spectrum ==
    (pc = "returned" /\ ret.fn = "dft") =>
        /\ Len(dft) = Len(freqs)
        /\ \A k \in 1 .. Len(freqs) : dft[k] = Coefficient(freqs[k])

\* a successful call over two different frequencies with different sums,
\* into an output argument that held three old entries
C4_Witness ==
    /\ pc = "returned"
    /\ Len(freqs) = 2
    /\ freqs[1] # freqs[2]
    /\ dft[1] # dft[2]
    /\ dft[1][2] # 0
    /\ Len(tempDft) = 3
    /\ Len(times) = 3

-----------------------------------------------------------------------------
(* Properties of the cadence statistics, checked under SpecFreqs *)

Range(t) == {t[k] : k \in DOMAIN t}
SetMax(S) == CHOOSE x \in S : \A y \in S : y <= x
SetMin(S) == CHOOSE x \in S : \A y \in S : x <= y

\* max(t) - min(t)
Span(t) == SetMax(Range(t)) - SetMin(Range(t))

\* t in the order p, a permutation of its positions
Permuted(t, p) == [k \in 1 .. Len(t) |-> t[p[k]]]
Reversed(t) == [k \in 1 .. Len(t) |-> t[Len(t) + 1 - k]]

\* what the call, as recorded in ret, returned or threw
Result == [kind |-> ret.kind, val |-> ret.val]

\* C5: deltaT fails with invalid_argument below two samples, else with
\* BadLightCurve when max - min is not positive, else returns max - min; the
\* result is the same for the reversed series and, for the series of up to
\* MaxSeries samples, for every permutation of it.
C5_DeltaT ==
    ret.fn = "deltaT" =>
        /\ IF Len(times) < 2 THEN ret.kind = "invalid_argument"
           ELSE IF Span(times) <= 0 THEN ret.kind = "BadLightCurve"
           ELSE ret.kind = "ok" /\ ret.val = <<Span(times), 1>>
        /\ deltaT(Reversed(times)) = Result
        /\ Len(times) <= MaxSeries =>
               \A p \in Permutations(1 .. Len(times)) :
                   deltaT(Permuted(times, p)) = Result

\* deltaT returned the span of an unsorted series whose extremes are at
\* neither end
C5_Witness ==
    /\ ret.fn = "deltaT"
    /\ ret.kind = "ok"
    /\ Len(times) = 4
    /\ ~Ascending(times)
    /\ {times[1], times[4]} \cap {SetMax(Range(times)), SetMin(Range(times))} = {}

\* the adjacent gaps of t that are strictly positive
PositiveGaps(t) ==
    {t[k + 1] - t[k] : k \in {j \in 1 .. Len(t) - 1 : t[j + 1] > t[j]}}

Inverted(t) == \E k \in 1 .. Len(t) - 1 : t[k] > t[k + 1]

\* C6: maxFreq fails with invalid_argument below two samples, else with
\* NotSorted when some adjacent pair is inverted, else with BadLightCurve when
\* no adjacent gap is positive, else returns 0.5 / dmin for dmin the smallest
\* positive adjacent gap.
C6_MaxFreq ==
    ret.fn = "maxFreq" =>
        IF Len(times) < 2 THEN ret.kind = "invalid_argument"
        ELSE IF Inverted(times) THEN ret.kind = "NotSorted"
        ELSE IF PositiveGaps(times) = {} THEN ret.kind = "BadLightCurve"
        ELSE /\ ret.kind = "ok"
             /\ ret.val[2] > 0
             /\ ret.val[1] * 2 * SetMin(PositiveGaps(times)) = ret.val[2]

\* maxFreq returned on a series with a zero gap, then a gap larger than the
\* smallest, then the smallest
C6_Witness ==
    /\ ret.fn = "maxFreq"
    /\ ret.kind = "ok"
    /\ Len(times) = 4
    /\ times[1] = times[2]
    /\ times[3] - times[2] > times[4] - times[3]
    /\ times[4] > times[3]

AllEqual(t) == \A a, b \in DOMAIN t : t[a] = t[b]

\* C8: on a series of two or more samples that all share one timestamp,
\* deltaT, pseudoNyquistFreq and maxFreq each fail with BadLightCurve.
C8_SingleTimestamp ==
    (/\ ret.fn \in {"deltaT", "pseudoNyquistFreq", "maxFreq"}
     /\ Len(times) >= 2
     /\ AllEqual(times))
    => (pc = "threw" /\ ret.kind = "BadLightCurve")

\* maxFreq threw BadLightCurve on three equal timestamps
C8_Witness ==
    /\ ret.fn = "maxFreq"
    /\ ret.kind = "BadLightCurve"
    /\ Len(times) = 3
    /\ AllEqual(times)

Grid100 == RegularGrid(0, 1, 100)

GridStep(t) == IF Len(t) >= 2 THEN t[2] - t[1] ELSE 1
IsRegularGrid(t) ==
    /\ Len(t) >= 1
    /\ GridStep(t) > 0
    /\ t = RegularGrid(t[1], GridStep(t), Len(t))

\* C11 (as claimed): on a regular grid of length 2 or 100 pseudoNyquistFreq
\* returns 1 / (2 * step), the value maxFreq returns for that grid; on a
\* regular grid of length 1 it throws invalid_argument.
C11_RegularGridPNF ==
    (ret.fn = "pseudoNyquistFreq" /\ IsRegularGrid(times)) =>
        /\ Len(times) = 1 => (pc = "threw" /\ ret.kind = "invalid_argument")
        /\ Len(times) \in {2, 100} =>
               /\ Result = Return(Rat(1, 2 * GridStep(times)))
               /\ Result = maxFreq(times)

-----------------------------------------------------------------------------
(* Properties across dft and the cadence statistics, checked under Spec on  *)
(* the arguments of the dft call                                            *)

\* C12: when times holds an inverted adjacent pair, dft ends with NotSorted
\* whatever fluxes and freqs are and wherever the inversion and the first
\* value different from times[1] lie, and maxFreq of the same times throws
\* NotSorted.
C12_InversionNotSorted ==
    (pc # "idle" /\ Inverted(times)) =>
        /\ pc = "threw"
        /\ ret.fn = "dft"
        /\ ret.kind = "NotSorted"
        /\ maxFreq(times) = Throw("NotSorted")

\* NotSorted for an inversion that comes after the first differing value,
\* with fluxes of another length and a negative frequency
C12_Witness ==
    /\ pc = "threw"
    /\ ret.kind = "NotSorted"
    /\ Len(times) = 3
    /\ times[1] < times[2]
    /\ times[2] > times[3]
    /\ Len(fluxes) = 1
    /\ \E k \in DOMAIN freqs : freqs[k] < 0

\* C13 (as claimed): every function reports a size error first, then a
\* content error, then an ordering error: fluxes of another length than times
\* gives invalid_argument from dft, fewer than two samples gives
\* invalid_argument from the cadence statistics, and a series with no
\* positive adjacent gap that is also out of order gives BadLightCurve.
C13_SizeContentOrder ==
    pc # "idle" =>
        /\ Len(fluxes) # Len(times) =>
               (pc = "threw" /\ ret.kind = "invalid_argument")
        /\ Len(times) < 2 =>
               /\ deltaT(times) = Throw("invalid_argument")
               /\ maxFreq(times) = Throw("invalid_argument")
               /\ pseudoNyquistFreq(times) = Throw("invalid_argument")
        /\ (Len(times) >= 2 /\ PositiveGaps(times) = {} /\ Inverted(times)) =>
               maxFreq(times) = Throw("BadLightCurve")

\* C13 (amended): each function reports the first failing check of its own
\* order.  deltaT, maxFreq and pseudoNyquistFreq test the size first; deltaT
\* and pseudoNyquistFreq then test the content and never the order; maxFreq
\* tests the order before the content; dft tests the content, then the order,
\* and the lengths of times and fluxes last.
C13_OrderPerFunction ==
    pc # "idle" =>
        /\ Len(times) < 2 =>
               /\ deltaT(times) = Throw("invalid_argument")
               /\ maxFreq(times) = Throw("invalid_argument")
               /\ pseudoNyquistFreq(times) = Throw("invalid_argument")
        /\ (Len(times) >= 2 /\ AllEqual(times)) =>
               /\ deltaT(times) = Throw("BadLightCurve")
               /\ pseudoNyquistFreq(times) = Throw("BadLightCurve")
        /\ (Len(times) >= 2 /\ ~AllEqual(times)) =>
               /\ deltaT(times).kind = "ok"
               /\ pseudoNyquistFreq(times).kind = "ok"
        /\ (Len(times) >= 2 /\ Inverted(times)) =>
               maxFreq(times) = Throw("NotSorted")
        /\ (Len(times) >= 2 /\ ~Inverted(times) /\ PositiveGaps(times) = {}) =>
               maxFreq(times) = Throw("BadLightCurve")
        /\ Len(fluxes) # Len(times) =>
               /\ pc = "threw"
               /\ ret.kind = (IF AllEqual(times) THEN "BadLightCurve"
                              ELSE IF Inverted(times) THEN "NotSorted"
                              ELSE "invalid_argument")

\* dft threw NotSorted, not invalid_argument, on two inverted samples with
\* fluxes of another length; the same times has no positive adjacent gap
C13_Witness ==
    /\ pc = "threw"
    /\ ret.kind = "NotSorted"
    /\ Len(times) = 2
    /\ times[1] > times[2]
    /\ Len(fluxes) = 3
    /\ PositiveGaps(times) = {}

\* the arguments under which dft goes through: some element differs from
\* the first, no element is smaller than its predecessor, and fluxes is as
\* long as times
Accepted ==
    /\ \E k \in DOMAIN times : times[k] # times[1]
    /\ \A k \in 1 .. Len(times) - 1 : times[k] <= times[k + 1]
    /\ Len(fluxes) = Len(times)

====
